---- MODULE Spec2Model ----
(***************************************************************************)
(* A model of pynmea2/nmea.py: the sentence grammar, the checksum, the     *)
(* type registries, parse, attribute assignment and render.                *)
(*                                                                         *)
(* A character is a one-character string; a Python str is a sequence of    *)
(* characters; a list of str is a sequence of such sequences.              *)
(***************************************************************************)
EXTENDS Integers, Sequences, FiniteSets, TLC

VARIABLES
    sentence_types,  \* the registries: category -> (name -> class)
    s,               \* the sentence object at hand
    call,            \* the latest call: its operation, arguments and exception
    prev,            \* the sentence object as it was before the latest call
    rendered,        \* the texts render has returned, oldest first
    modified         \* whether a field of s was assigned since it was parsed

vars == <<sentence_types, s, call, prev, rendered, modified>>

(***************************************************************************)
(* Bounds of the model.                                                    *)
(***************************************************************************)
\* the largest number of comma-separated data fields of a generated line
MaxFields == 2
\* the largest number of whitespace characters appended to a line
MaxTrail == 1

(***************************************************************************)
(* Characters.                                                             *)
(***************************************************************************)
Digits == {"0", "1", "2", "3", "4", "5", "6", "7", "8", "9"}
UpperLetters == {"A", "B", "C", "D", "E", "F", "G", "P", "Q", "R", "S", "V", "Z"}
LowerLetters == {"a", "b", "c", "d", "e", "f", "g", "p", "q"}

\* ord(c), for the characters the model uses
Ord ==
    [c \in {"$"} |-> 36] @@ [c \in {"*"} |-> 42] @@ [c \in {","} |-> 44]
    @@ [c \in {"-"} |-> 45] @@ [c \in {" "} |-> 32] @@ [c \in {"_"} |-> 95]
    @@ [c \in {"\n"} |-> 10] @@ [c \in {"\r"} |-> 13]
    @@ ("0" :> 48) @@ ("1" :> 49) @@ ("2" :> 50) @@ ("3" :> 51) @@ ("4" :> 52)
    @@ ("5" :> 53) @@ ("6" :> 54) @@ ("7" :> 55) @@ ("8" :> 56) @@ ("9" :> 57)
    @@ ("A" :> 65) @@ ("B" :> 66) @@ ("C" :> 67) @@ ("D" :> 68) @@ ("E" :> 69)
    @@ ("F" :> 70) @@ ("G" :> 71) @@ ("P" :> 80) @@ ("Q" :> 81) @@ ("R" :> 82)
    @@ ("S" :> 83) @@ ("V" :> 86) @@ ("Z" :> 90)
    @@ ("a" :> 97) @@ ("b" :> 98) @@ ("c" :> 99) @@ ("d" :> 100) @@ ("e" :> 101)
    @@ ("f" :> 102) @@ ("g" :> 103) @@ ("p" :> 112) @@ ("q" :> 113)

\* str.upper() of one character
UpperChar(c) ==
    CASE c = "a" -> "A" [] c = "b" -> "B" [] c = "c" -> "C" [] c = "d" -> "D"
      [] c = "e" -> "E" [] c = "f" -> "F" [] c = "g" -> "G" [] c = "p" -> "P"
      [] c = "q" -> "Q" [] OTHER -> c

\* str.upper()
Upper(str) == [i \in 1..Len(str) |-> UpperChar(str[i])]

\* the regular expression classes \w and \s
IsWord(c) == c \in Digits \cup UpperLetters \cup LowerLetters \cup {"_"}
IsSpace(c) == c \in {" ", "\n", "\r"}

\* a literal letter of a pattern compiled with re.IGNORECASE
MatchesIgnoreCase(c, letter) == UpperChar(c) = letter

\* the class [A-F0-9] under re.IGNORECASE
IsHex(c) == UpperChar(c) \in Digits \cup {"A", "B", "C", "D", "E", "F"}

HexDigit == <<"0", "1", "2", "3", "4", "5", "6", "7", "8", "9", "A", "B", "C", "D", "E", "F">>

\* the value of one hexadecimal digit
HexVal(c) == CHOOSE v \in 0..15 : HexDigit[v + 1] = UpperChar(c)

\* int(str, 16)
RECURSIVE IntBase16(_)
IntBase16(str) ==
    IF str = <<>> THEN 0
    ELSE (16 * IntBase16(SubSeq(str, 1, Len(str) - 1))) + HexVal(str[Len(str)])

\* '%X' % n
RECURSIVE HexStr(_)
HexStr(n) ==
    IF n < 16 THEN <<HexDigit[n + 1]>>
    ELSE HexStr(n \div 16) \o <<HexDigit[(n % 16) + 1]>>

\* '%02X' % n
Hex02(n) == IF n < 16 THEN <<"0">> \o HexStr(n) ELSE HexStr(n)

\* operator.xor on non-negative integers
RECURSIVE Xor(_, _)
Xor(a, b) ==
    IF a = 0 THEN b
    ELSE IF b = 0 THEN a
    ELSE (((a % 2) + (b % 2)) % 2) + (2 * Xor(a \div 2, b \div 2))

\* NMEASentence.checksum: reduce(operator.xor, map(ord, nmea_str), 0)
RECURSIVE checksum(_)
checksum(nmea_str) ==
    IF nmea_str = <<>> THEN 0
    ELSE Xor(checksum(SubSeq(nmea_str, 1, Len(nmea_str) - 1)), Ord[nmea_str[Len(nmea_str)]])

\* str.split(',')
RECURSIVE Split(_)
Split(str) ==
    IF \A i \in 1..Len(str) : str[i] # ","
    THEN <<str>>
    ELSE LET k == CHOOSE i \in 1..Len(str) :
                      str[i] = "," /\ \A j \in 1..(i - 1) : str[j] # ","
         IN <<SubSeq(str, 1, k - 1)>> \o Split(SubSeq(str, k + 1, Len(str)))

\* ','.join(list)
RECURSIVE Join(_)
Join(list) ==
    IF list = <<>> THEN <<>>
    ELSE IF Len(list) = 1 THEN list[1]
    ELSE list[1] \o <<",">> \o Join(Tail(list))

Suffix(str, from) == SubSeq(str, from, Len(str))

(***************************************************************************)
(* NMEASentence.sentence_re, matched as Python's backtracking matcher      *)
(* matches it: quantifiers are greedy, alternatives are tried in the order *)
(* written, and the first way that lets the whole pattern match is kept.   *)
(***************************************************************************)
NoMatch == [matched |-> FALSE, nmea_str |-> <<>>, sentence_type |-> <<>>,
            data |-> <<>>, checksum |-> <<>>]

\* \s*[\r\n]*$ from position k
TrailingWhitespace(line, k) == \A i \in k..Len(line) : IsSpace(line[i])

\* [*](?P<checksum>[A-F0-9]{2}) at position k
ChecksumAt(line, k) ==
    /\ k + 2 <= Len(line)
    /\ line[k] = "*"
    /\ IsHex(line[k + 1])
    /\ IsHex(line[k + 2])

\* the rest of the pattern after (?P<data>[^*]*) has taken line[q..e]
TailWithChecksum(line, e) == ChecksumAt(line, e + 1) /\ TrailingWhitespace(line, e + 4)
TailWithoutChecksum(line, e) == TrailingWhitespace(line, e + 1)

\* the ends e of (?P<data>[^*]*) started at q for which the rest matches
DataEnds(line, q) ==
    {e \in (q - 1)..Len(line) :
        /\ \A i \in q..e : line[i] # "*"
        /\ TailWithChecksum(line, e) \/ TailWithoutChecksum(line, e)}

\* the length of the sentence type identifier by alternative a at position
\* p, 0 when the alternative does not match there
\*   1: (P\w{3})   2: (\w{2}\w{2}Q,\w{3})   3: (\w{2}\w{3},)
IdentLen(line, p, a) ==
    LET word(i) == i <= Len(line) /\ IsWord(line[i])
        is(i, c) == i <= Len(line) /\ MatchesIgnoreCase(line[i], c)
    IN CASE a = 1 ->
              IF is(p, "P") /\ \A i \in (p + 1)..(p + 3) : word(i) THEN 4 ELSE 0
         [] a = 2 ->
              IF /\ \A i \in p..(p + 3) : word(i)
                 /\ is(p + 4, "Q")
                 /\ is(p + 5, ",")
                 /\ \A i \in (p + 6)..(p + 8) : word(i)
              THEN 9 ELSE 0
         [] OTHER ->
              IF (\A i \in p..(p + 4) : word(i)) /\ is(p + 5, ",") THEN 6 ELSE 0

\* the alternatives of sentence_type that let the whole pattern match with
\* nmea_str starting at p
Alternatives(line, p) ==
    {a \in 1..3 : IdentLen(line, p, a) > 0
                  /\ DataEnds(line, p + IdentLen(line, p, a)) # {}}

Max(S) == CHOOSE x \in S : \A y \in S : y <= x
Min(S) == CHOOSE x \in S : \A y \in S : x <= y

\* GroupsAt with the alternatives of sentence_type tried in the opposite
\* order: the talker pattern first
GroupsAt_TalkerFirst(line, p) ==
    LET a == Max(Alternatives(line, p))
        q == p + IdentLen(line, p, a)
        e == Max(DataEnds(line, q))
    IN [matched |-> TRUE,
        nmea_str |-> SubSeq(line, p, e),
        sentence_type |-> SubSeq(line, p, q - 1),
        data |-> SubSeq(line, q, e),
        checksum |-> IF TailWithChecksum(line, e)
                     THEN SubSeq(line, e + 2, e + 3) ELSE <<>>]

\* the groups of the match with nmea_str starting at p
GroupsAt(line, p) ==
    LET a == Min(Alternatives(line, p))
        q == p + IdentLen(line, p, a)
        e == Max(DataEnds(line, q))
    IN [matched |-> TRUE,
        nmea_str |-> SubSeq(line, p, e),
        sentence_type |-> SubSeq(line, p, q - 1),
        data |-> SubSeq(line, q, e),
        checksum |-> IF TailWithChecksum(line, e)
                     THEN SubSeq(line, e + 2, e + 3) ELSE <<>>]

\* ^\s*\$? : the positions p at which nmea_str can start, each with its rank
\* in the matcher's order of trial (more whitespace first, '$' taken first)
Starts(line) ==
    UNION {
        (IF i < Len(line) /\ line[i + 1] = "$"
         THEN {[p |-> i + 2, rank |-> 2 * (Len(line) - i)]} ELSE {})
        \cup {[p |-> i + 1, rank |-> (2 * (Len(line) - i)) + 1]}
        : i \in {n \in 0..Len(line) : \A j \in 1..n : IsSpace(line[j])}}

\* NMEASentence.sentence_re.match(line)
sentence_re(line) ==
    LET ok == {st \in Starts(line) : Alternatives(line, st.p) # {}}
    IN IF ok = {} THEN NoMatch
       ELSE GroupsAt(line, (CHOOSE st \in ok : \A o \in ok : st.rank <= o.rank).p)

\* talker_re = ^(?P<talker>\w{2})(?P<sentence>\w{3}),$
talker_re(str) ==
    /\ Len(str) = 6
    /\ \A i \in 1..5 : IsWord(str[i])
    /\ str[6] = ","

\* query_re = ^(?P<talker>\w{2})(?P<listener>\w{2})Q,(?P<sentence>\w{3})$
query_re(str) ==
    /\ Len(str) = 9
    /\ \A i \in 1..4 : IsWord(str[i])
    /\ str[5] = "Q"
    /\ str[6] = ","
    /\ \A i \in 7..9 : IsWord(str[i])

\* proprietary_re = ^P(?P<manufacturer>\w{3})$
proprietary_re(str) ==
    /\ Len(str) = 4
    /\ str[1] = "P"
    /\ \A i \in 2..4 : IsWord(str[i])

(***************************************************************************)
(* Sentence types and the registries.                                      *)
(***************************************************************************)
\* the three categories: the classes defined in nmea.py below NMEASentence
Categories == {"TalkerSentence", "QuerySentence", "ProprietarySentence"}

\* the name -> index map of a tuple of (label, name) fields:
\* dict((f[1], i) for i, f in enumerate(cls.fields)); indices count from 0
NameToIdx(fields) ==
    [n \in {fields[i][2] : i \in 1..Len(fields)} |->
        Max({i \in 1..Len(fields) : fields[i][2] = n}) - 1]

\* a class created by the metaclass: its name, its first base and its fields
Class(base, name, fields) ==
    [base |-> base, name |-> name, fields |-> fields,
     name_to_idx |-> NameToIdx(fields)]

\* NMEASentenceType.__init__ for a class whose first base is one of the
\* categories: base.sentence_types[name] = cls
Register(types, base, name, fields) ==
    [types EXCEPT ![base] = (name :> Class(base, name, fields)) @@ @]

\* a category used as the type of a sentence: fields = (), name_to_idx = {}
Generic == Class("NMEASentence", <<>>, <<>>)

GGA == <<"G", "G", "A">>
GSV == <<"G", "S", "V">>
GRS == <<"G", "R", "S">>
GPQ == <<"G", "P", "Q">>
ABC == <<"A", "B", "C">>

\* the declarations of concrete sentence types, in the order they are made
Declarations ==
    << [base |-> "TalkerSentence", name |-> GGA,
        fields |-> << <<"Timestamp", "timestamp">>, <<"Latitude", "lat">> >>],
       [base |-> "ProprietarySentence", name |-> ABC,
        fields |-> << <<"Mode", "mode">> >>],
       [base |-> "TalkerSentence", name |-> GPQ,
        fields |-> << <<"Mode", "mode">> >>],
       [base |-> "TalkerSentence", name |-> GSV,
        fields |-> << <<"Number of messages", "num_messages">> >>],
       [base |-> "TalkerSentence", name |-> GRS,
        fields |-> << <<"Timestamp", "timestamp">> >>] >>

\* the registries before any concrete type is declared
NoTypes == [c \in Categories |-> <<>>]

\* the registries after the first n declarations
RECURSIVE Declared(_)
Declared(n) ==
    IF n = 0 THEN NoTypes
    ELSE LET d == Declarations[n]
         IN Register(Declared(n - 1), d.base, d.name, d.fields)

(***************************************************************************)
(* Sentence objects.                                                       *)
(***************************************************************************)
NoSentence ==
    [category |-> "None", type |-> Class("object", <<>>, <<>>),
     talker |-> <<>>, listener |-> <<>>, sentence_type |-> <<>>,
     manufacturer |-> <<>>, data |-> <<>>, fields |-> <<>>, extra |-> <<>>]

\* TalkerSentence.__init__(self, talker, sentence_type, data, **kwargs)
TalkerSentence_init(cls, talker, sentence_type, data) ==
    [NoSentence EXCEPT !.category = "TalkerSentence", !.type = cls,
                       !.talker = talker, !.sentence_type = sentence_type,
                       !.data = data, !.fields = cls.fields]

\* the concrete talker class called with a fields keyword: the sentence
\* carries the overriding schema
ConcreteTalker(cls, talker, sentence_type, data, kwargs) ==
    IF kwargs.has_fields
    THEN [TalkerSentence_init(cls, talker, sentence_type, data)
             EXCEPT !.fields = kwargs.fields]
    ELSE TalkerSentence_init(cls, talker, sentence_type, data)

\* QuerySentence.__init__(self, talker, listener, sentence_type)
QuerySentence_init(talker, listener, sentence_type) ==
    [NoSentence EXCEPT !.category = "QuerySentence",
                       !.type = Generic,
                       !.talker = talker, !.listener = listener,
                       !.sentence_type = sentence_type, !.data = <<>>]

\* ProprietarySentence.__init__(self, manufacturer, data)
ProprietarySentence_init(cls, manufacturer, data) ==
    [NoSentence EXCEPT !.category = "ProprietarySentence", !.type = cls,
                       !.manufacturer = manufacturer, !.data = data,
                       !.fields = cls.fields]

\* cls.fields[:n] for n >= 0
Take(fields, n) == SubSeq(fields, 1, IF n < Len(fields) THEN n ELSE Len(fields))

(***************************************************************************)
(* NMEASentence.parse                                                      *)
(***************************************************************************)
Raise(kind) == [raised |-> kind, value |-> NoSentence]
Return(sentence) == [raised |-> "", value |-> sentence]

\* GSVFields truncating one entry too many
GSVFields_OffByOne(cls, data) ==
    Take(cls.fields, Len(data) - 2) \o << <<"GNSS Signal ID", "signal_id">> >>

\* line 148: cls.fields[:len(data)-1] + (('GNSS Signal ID', 'signal_id'),)
GSVFields(cls, data) ==
    Take(cls.fields, Len(data) - 1) \o << <<"GNSS Signal ID", "signal_id">> >>

\* line 151: cls.fields + (('GNSS System ID', 'system_id'),
\*                         ('GNSS Signal ID', 'signal_id'))
GRSFields(cls) ==
    cls.fields \o << <<"GNSS System ID", "system_id">>,
                     <<"GNSS Signal ID", "signal_id">> >>

\* lines 140..156: the talker branch.  With an unregistered code cls is
\* None, and reading cls.fields raises AttributeError before line 152
ParseTalker(types, sentence_type, data, GSV_signal_id, GRS_ids) ==
    LET talker == SubSeq(sentence_type, 1, 2)
        sentence == SubSeq(sentence_type, 3, 5)
        known == sentence \in DOMAIN types["TalkerSentence"]
        cls == types["TalkerSentence"][sentence]
        gsv == sentence = GSV /\ GSV_signal_id
        grs == sentence = GRS /\ GRS_ids
        cls_kwargs ==
            IF grs THEN [has_fields |-> TRUE, fields |-> GRSFields(cls)]
            ELSE IF gsv THEN [has_fields |-> TRUE, fields |-> GSVFields(cls, data)]
            ELSE [has_fields |-> FALSE, fields |-> <<>>]
    IN IF (gsv \/ grs) /\ ~known
       THEN Raise("AttributeError")
       ELSE IF ~known
       THEN Raise("SentenceTypeError")
       ELSE Return(ConcreteTalker(cls, talker, sentence, data, cls_kwargs))

\* ParseOther treating an unregistered manufacturer as the talker branch
\* treats an unregistered code
ParseOther_StrictManufacturer(types, sentence_type, data_str, data) ==
    IF query_re(sentence_type) /\ data_str = <<>>
    THEN Return(QuerySentence_init(SubSeq(sentence_type, 1, 2),
                                   SubSeq(sentence_type, 3, 4),
                                   SubSeq(sentence_type, 7, 9)))
    ELSE IF proprietary_re(sentence_type)
    THEN LET manufacturer == SubSeq(sentence_type, 2, 4)
         IN IF manufacturer \in DOMAIN types["ProprietarySentence"]
            THEN Return(ProprietarySentence_init(
                            types["ProprietarySentence"][manufacturer],
                            manufacturer, data))
            ELSE Raise("SentenceTypeError")
    ELSE Raise("ParseError")

\* lines 158..172: the query branch, the proprietary branch, the failure
ParseOther(types, sentence_type, data_str, data) ==
    IF query_re(sentence_type) /\ data_str = <<>>
    THEN Return(QuerySentence_init(SubSeq(sentence_type, 1, 2),
                                   SubSeq(sentence_type, 3, 4),
                                   SubSeq(sentence_type, 7, 9)))
    ELSE IF proprietary_re(sentence_type)
    THEN LET manufacturer == SubSeq(sentence_type, 2, 4)
             cls == IF manufacturer \in DOMAIN types["ProprietarySentence"]
                    THEN types["ProprietarySentence"][manufacturer]
                    ELSE Generic
         IN Return(ProprietarySentence_init(cls, manufacturer, data))
    ELSE Raise("ParseError")

\* ChecksumFails without the elif of lines 136..138: a missing checksum
\* passes the strict check
ChecksumFails_MissingAccepted(nmea_str, cs, check) ==
    cs # <<>> /\ IntBase16(cs) # checksum(nmea_str) /\ check

\* lines 130..138: whether the checksum check raises ChecksumError
ChecksumFails(nmea_str, cs, check) ==
    IF cs # <<>>
    THEN IntBase16(cs) # checksum(nmea_str) /\ check
    ELSE check

parse(types, line, check, GSV_signal_id, GRS_ids) ==
    LET match == sentence_re(line)
        sentence_type == Upper(match.sentence_type)
        data == Split(match.data)
    IN IF ~match.matched THEN Raise("ParseError")
       ELSE IF ChecksumFails(match.nmea_str, match.checksum, check)
       THEN Raise("ChecksumError")
       ELSE IF talker_re(sentence_type)
       THEN ParseTalker(types, sentence_type, data, GSV_signal_id, GRS_ids)
       ELSE ParseOther(types, sentence_type, match.data, data)

(***************************************************************************)
(* NMEASentence.__setattr__                                                *)
(***************************************************************************)
\* the values assigned in the model: an int, a str or a list of str
IntValue(n) == [kind |-> "int", int |-> n, str |-> <<>>, list |-> <<>>]
StrValue(str) == [kind |-> "str", int |-> 0, str |-> str, list |-> <<>>]
ListValue(list) == [kind |-> "list", int |-> 0, str |-> <<>>, list |-> list]

\* str(n) of an int
RECURSIVE DecStr(_)
DecStr(n) ==
    IF n < 0 THEN <<"-">> \o DecStr(0 - n)
    ELSE IF n < 10 THEN <<HexDigit[n + 1]>>
    ELSE DecStr(n \div 10) \o <<HexDigit[(n % 10) + 1]>>

\* str(value) of an int or a str
Str(value) == IF value.kind = "int" THEN DecStr(value.int) ELSE value.str

\* object.__setattr__(self, name, value)
ObjectSetAttr(self, name, value) ==
    CASE name = "talker" -> [self EXCEPT !.talker = Str(value)]
      [] name = "data" -> [self EXCEPT !.data = value.list]
      [] OTHER -> [self EXCEPT !.extra = (name :> value) @@ @]

\* SetItem writing one position too far
SetItem_OffByOne(self, i, value) ==
    IF i + 1 < Len(self.data)
    THEN Return([self EXCEPT !.data[i + 2] = Str(value)])
    ELSE [raised |-> "IndexError", value |-> self]

\* self.data[i] = str(value), i counted from 0
SetItem(self, i, value) ==
    IF i < Len(self.data)
    THEN Return([self EXCEPT !.data[i + 1] = Str(value)])
    ELSE [raised |-> "IndexError", value |-> self]

setattr(self, name, value) ==
    IF name \notin DOMAIN self.type.name_to_idx
    THEN Return(ObjectSetAttr(self, name, value))
    ELSE SetItem(self, self.type.name_to_idx[name], value)

(***************************************************************************)
(* identifier and render                                                   *)
(***************************************************************************)
\* identifier with the talker identifier lacking its trailing comma
identifier_NoTalkerComma(self) ==
    CASE self.category = "TalkerSentence" -> self.talker \o self.sentence_type
      [] self.category = "QuerySentence" ->
            self.talker \o self.listener \o <<"Q", ",">> \o self.sentence_type \o <<",">>
      [] OTHER -> <<"P">> \o self.manufacturer

\* TalkerSentence.identifier, QuerySentence.identifier,
\* ProprietarySentence.identifier
identifier(self) ==
    CASE self.category = "TalkerSentence" ->
            self.talker \o self.sentence_type \o <<",">>
      [] self.category = "QuerySentence" ->
            self.talker \o self.listener \o <<"Q", ",">> \o self.sentence_type \o <<",">>
      [] OTHER -> <<"P">> \o self.manufacturer

\* the newline argument of render: False, True or a str
NewlineFalse == [is_true |-> FALSE, str |-> <<>>]
NewlineTrue == [is_true |-> TRUE, str |-> <<>>]
NewlineStr(str) == [is_true |-> FALSE, str |-> str]

\* render with the '$' prepended before the checksum is computed
render_DollarFirst(self, with_checksum, dollar, newline) ==
    LET res1 == identifier(self) \o Join(self.data)
        res2 == IF dollar THEN <<"$">> \o res1 ELSE res1
        res3 == IF with_checksum THEN res2 \o <<"*">> \o Hex02(checksum(res2)) ELSE res2
    IN IF newline.is_true THEN res3 \o <<"\r", "\n">>
       ELSE res3 \o newline.str

\* NMEASentence.render(self, checksum=True, dollar=True, newline=False)
render(self, with_checksum, dollar, newline) ==
    LET res1 == identifier(self) \o Join(self.data)
        res2 == IF with_checksum THEN res1 \o <<"*">> \o Hex02(checksum(res1)) ELSE res1
        res3 == IF dollar THEN <<"$">> \o res2 ELSE res2
    IN IF newline.is_true THEN res3 \o <<"\r", "\n">>
       ELSE res3 \o newline.str

(***************************************************************************)
(* The inputs of the model.                                                *)
(***************************************************************************)
\* what precedes the data of a generated line: the text before the
\* sentence type identifier, and the identifier up to its first comma
Heads ==
    { [pre |-> <<"$">>, ident |-> <<"G", "P", "G", "G", "A", ",">>],
      [pre |-> <<" ">>, ident |-> <<"g", "p", "g", "g", "a", ",">>],
      [pre |-> <<"$">>, ident |-> <<"G", "P", "G", "S", "V", ",">>],
      [pre |-> <<"$">>, ident |-> <<"G", "P", "G", "R", "S", ",">>],
      [pre |-> <<"$">>, ident |-> <<"G", "P", "Z", "Z", "Z", ",">>],
      [pre |-> <<"$">>, ident |-> <<"P", "G", "G", "G", "A", ",">>],
      [pre |-> <<"$">>, ident |-> <<"P", "A", "B", "C", ",">>],
      [pre |-> <<>>, ident |-> <<"p", "Z", "Z", "Z", ",">>],
      [pre |-> <<"$">>, ident |-> <<"C", "C", "G", "P", "Q", ",">>],
      [pre |-> <<"$">>, ident |-> <<"P", "C", "G", "P", "Q", ",">>],
      [pre |-> <<"$">>, ident |-> <<"G", "P", ",">>] }

\* the values of one data field
FieldValues == {<<>>, <<"G", "7", "A">>}

\* the data of a generated line: 1..MaxFields fields joined by commas
Bodies == {Join(f) : f \in UNION {[1..n -> FieldValues] : n \in 1..MaxFields}}

\* what follows the data: nothing, the right checksum, a wrong one, a
\* truncated one, a line end without a checksum
Suffixes(nmea_str) ==
    { <<>>,
      <<"*">> \o Hex02(checksum(nmea_str)),
      <<"*">> \o Hex02(Xor(checksum(nmea_str), 1)),
      <<"*", "4">>,
      <<"\r", "\n">> }

Lines ==
    UNION { {h.pre \o h.ident \o b \o x : x \in Suffixes(h.ident \o b)}
            : h \in Heads, b \in Bodies }

\* the whitespace appended to a line: 1..MaxTrail characters
Whitespace == UNION {[1..n -> {" ", "\n"}] : n \in 1..MaxTrail}

\* how many of the declarations have been made when the program starts
Stages == {2, Len(Declarations)}

\* the (name, value) pairs assigned
Assignments ==
    { <<"timestamp", StrValue(<<"B">>)>>,
      <<"lat", IntValue(12)>>,
      <<"mode", IntValue(12)>>,
      <<"signal_id", IntValue(12)>>,
      <<"note", StrValue(<<"B">>)>>,
      <<"talker", StrValue(<<"Z", "Z">>)>>,
      <<"data", ListValue(<< <<"7">> >>)>> }

\* the arguments render is called with
DefaultArgs == [checksum |-> TRUE, dollar |-> TRUE, newline |-> NewlineFalse]
RenderArgs ==
    { DefaultArgs,
      [DefaultArgs EXCEPT !.checksum = FALSE],
      [DefaultArgs EXCEPT !.dollar = FALSE],
      [DefaultArgs EXCEPT !.newline = NewlineTrue],
      [DefaultArgs EXCEPT !.newline = NewlineStr(<<"\n">>)] }

(***************************************************************************)
(* The state machine: a program that parses a line, and then renders the   *)
(* sentence and parses the rendered text, or assigns to an attribute, or   *)
(* parses the line again with whitespace appended.                         *)
(***************************************************************************)
NoCall ==
    [op |-> "init", line |-> <<>>, check |-> FALSE, GSV_signal_id |-> FALSE,
     GRS_ids |-> FALSE, w |-> <<>>, name |-> "", value |-> IntValue(0),
     args |-> DefaultArgs, raised |-> ""]

Init ==
    /\ sentence_types \in {Declared(n) : n \in Stages}
    /\ s = NoSentence
    /\ call = NoCall
    /\ prev = NoSentence
    /\ rendered = <<>>
    /\ modified = FALSE

\* s = NMEASentence.parse(line, check, GSV_signal_id, GRS_ids)
Parse(line, check, GSV_signal_id, GRS_ids) ==
    /\ call.op = "init"
    /\ LET r == parse(sentence_types, line, check, GSV_signal_id, GRS_ids)
       IN /\ s' = r.value
          /\ call' = [NoCall EXCEPT !.op = "parse", !.line = line, !.check = check,
                                    !.GSV_signal_id = GSV_signal_id,
                                    !.GRS_ids = GRS_ids, !.raised = r.raised]
    /\ prev' = s
    /\ UNCHANGED <<sentence_types, rendered, modified>>

\* s = NMEASentence.parse(line + w, ...) with the arguments of the first call
ParseAgain(w) ==
    /\ call.op = "parse"
    /\ call.raised = ""
    /\ LET r == parse(sentence_types, call.line \o w, call.check,
                      call.GSV_signal_id, call.GRS_ids)
       IN /\ s' = r.value
          /\ call' = [call EXCEPT !.op = "parse_ws", !.line = call.line \o w,
                                  !.w = w, !.raised = r.raised]
    /\ prev' = s
    /\ UNCHANGED <<sentence_types, rendered, modified>>

\* s.<name> = value
SetAttr(name, value) ==
    /\ call.op = "parse"
    /\ call.raised = ""
    /\ LET r == setattr(s, name, value)
       IN /\ s' = r.value
          /\ call' = [NoCall EXCEPT !.op = "setattr", !.name = name,
                                    !.value = value, !.raised = r.raised]
    /\ prev' = s
    /\ modified' = TRUE
    /\ UNCHANGED <<sentence_types, rendered>>

\* s.render(checksum, dollar, newline); str(s) is the call with the defaults
Render(args) ==
    /\ call.op \in {"parse", "setattr", "reparse"}
    /\ s.category \in Categories
    /\ modified => args = DefaultArgs
    /\ rendered' = Append(rendered, [text |-> render(s, args.checksum, args.dollar, args.newline),
                                     args |-> args])
    /\ call' = [NoCall EXCEPT !.op = "render", !.args = args]
    /\ UNCHANGED <<sentence_types, s, prev, modified>>

\* s = NMEASentence.parse(text, check) of the text render returned
Reparse(check) ==
    /\ call.op = "render"
    /\ Len(rendered) = 1
    /\ LET line == rendered[1].text
           r == parse(sentence_types, line, check, FALSE, FALSE)
       IN /\ s' = r.value
          /\ call' = [NoCall EXCEPT !.op = "reparse", !.line = line,
                                    !.check = check, !.raised = r.raised]
    /\ prev' = s
    /\ UNCHANGED <<sentence_types, rendered, modified>>

Next ==
    \/ \E line \in Lines, check \in BOOLEAN, GSV_signal_id \in BOOLEAN,
          GRS_ids \in BOOLEAN : Parse(line, check, GSV_signal_id, GRS_ids)
    \/ \E w \in Whitespace : ParseAgain(w)
    \/ \E a \in Assignments : SetAttr(a[1], a[2])
    \/ \E args \in RenderArgs : Render(args)
    \/ \E check \in BOOLEAN : Reparse(check)

Spec == Init /\ [][Next]_vars

(***************************************************************************)
(* The text of a line, read without the grammar: what the properties       *)
(* below say about a line they say of its characters.                      *)
(***************************************************************************)
\* the line without its leading whitespace and its optional '$'
Body(line) ==
    LET n == Max({k \in 0..Len(line) : \A j \in 1..k : IsSpace(line[j])})
    IN IF n < Len(line) /\ line[n + 1] = "$" THEN Suffix(line, n + 2)
       ELSE Suffix(line, n + 1)

HasStar(b) == \E i \in 1..Len(b) : b[i] = "*"
StarAt(b) == Min({i \in 1..Len(b) : b[i] = "*"})

\* the text the checksum covers: up to the '*', or all of it
Covered(b) == IF HasStar(b) THEN SubSeq(b, 1, StarAt(b) - 1) ELSE b

\* the value of the two hexadecimal digits after the '*'
StatedChecksum(b) ==
    (16 * HexVal(b[StarAt(b) + 1])) + HexVal(b[StarAt(b) + 2])

WordsAt(b, from, to) == to <= Len(b) /\ \A i \in from..to : IsWord(b[i])
CharAt(b, i, cs) == i <= Len(b) /\ b[i] \in cs

\* 2 + 3 word characters followed by ','
TalkerAnchor(b) == WordsAt(b, 1, 5) /\ CharAt(b, 6, {","})
\* 2 + 2 word characters, 'Q,', 3 word characters
QueryAnchor(b) ==
    WordsAt(b, 1, 4) /\ CharAt(b, 5, {"Q", "q"}) /\ CharAt(b, 6, {","})
    /\ WordsAt(b, 7, 9)
\* 'P' and 3 word characters
ProprietaryAnchor(b) == CharAt(b, 1, {"P", "p"}) /\ WordsAt(b, 2, 4)

\* the calls of parse
ParseOps == {"parse", "parse_ws", "reparse"}
\* the grammar accepts the line of the latest call
Accepted == call.op \in ParseOps /\ sentence_re(call.line).matched

SameIdentity(a, b) ==
    /\ a.category = b.category
    /\ a.talker = b.talker
    /\ a.listener = b.listener
    /\ a.sentence_type = b.sentence_type
    /\ a.manufacturer = b.manufacturer

IsDefaultRender(i) == Len(rendered) >= i /\ rendered[i].args = DefaultArgs

(***************************************************************************)
(* C2: a query line without data, parsed and converted with str(), gives   *)
(* '$' + talker + listener + 'Q,' + code + '*' + two upper-case            *)
(* hexadecimal digits, with nothing between the code and the '*'.          *)
(***************************************************************************)
C2_QueryRendering ==
    (/\ call.op = "render"
     /\ Len(rendered) = 1
     /\ IsDefaultRender(1)
     /\ ~modified
     /\ s.category = "QuerySentence")
    => \E h1, h2 \in 1..16 :
          rendered[1].text =
              <<"$">> \o s.talker \o s.listener \o <<"Q", ",">> \o s.sentence_type
              \o <<"*", HexDigit[h1], HexDigit[h2]>>

(***************************************************************************)
(* C3: for a line the grammar accepts, parse with check=True raises        *)
(* ChecksumError exactly when the '*HH' suffix is absent or its value      *)
(* differs from the XOR of the character codes before the '*', whatever    *)
(* the sentence code; parse with check=False never raises ChecksumError.   *)
(***************************************************************************)
C3_StrictChecksum ==
    Accepted =>
        LET b == Body(call.line)
        IN (call.raised = "ChecksumError")
           <=> (/\ call.check
                /\ \/ ~HasStar(b)
                   \/ StatedChecksum(b) # checksum(Covered(b)))

\* a wrong checksum on a line whose sentence code is not registered
C3_Witness ==
    /\ call.op = "parse"
    /\ Accepted
    /\ call.raised = "ChecksumError"
    /\ HasStar(Body(call.line))
    /\ TalkerAnchor(Body(call.line))
    /\ Upper(SubSeq(Body(call.line), 3, 5)) \notin DOMAIN sentence_types["TalkerSentence"]

(***************************************************************************)
(* C4: a line of the talker shape whose code is not in the talker          *)
(* registry makes parse with check=False raise SentenceTypeError and       *)
(* nothing else, for every setting of GSV_signal_id and GRS_ids and every  *)
(* code.                                                                   *)
(***************************************************************************)
C4_UnknownTalkerCode ==
    (/\ Accepted
     /\ ~call.check
     /\ talker_re(Upper(sentence_re(call.line).sentence_type))
     /\ Upper(SubSeq(sentence_re(call.line).sentence_type, 3, 5))
            \notin DOMAIN sentence_types["TalkerSentence"])
    => call.raised = "SentenceTypeError"

(***************************************************************************)
(* C9: parsing a line with whitespace appended gives the same identity     *)
(* fields and the same data as parsing the line, with a checksum suffix    *)
(* and without one.                                                        *)
(***************************************************************************)
C9_TrailingWhitespace ==
    call.op = "parse_ws" =>
        /\ call.raised = ""
        /\ SameIdentity(s, prev)
        /\ s.data = prev.data

(***************************************************************************)
(* C1: for a line parse returns a TalkerSentence s for, fields not         *)
(* assigned, parse(s.render()) succeeds and parse(s.render()).render() is  *)
(* the same text as s.render().                                            *)
(***************************************************************************)
C1_RoundTrip ==
    /\ (/\ call.op = "reparse"
        /\ ~call.check
        /\ ~modified
        /\ IsDefaultRender(1)
        /\ prev.category = "TalkerSentence")
       => call.raised = ""
    /\ (/\ call.op = "render"
        /\ Len(rendered) = 2
        /\ ~modified
        /\ IsDefaultRender(1)
        /\ IsDefaultRender(2)
        /\ prev.category = "TalkerSentence")
       => rendered[2].text = rendered[1].text

\* a talker sentence with an empty and a non-empty field, rendered twice
C1_Witness ==
    /\ call.op = "render"
    /\ Len(rendered) = 2
    /\ ~modified
    /\ IsDefaultRender(1)
    /\ IsDefaultRender(2)
    /\ prev.category = "TalkerSentence"
    /\ s.category = "TalkerSentence"
    /\ \E i, j \in 1..Len(prev.data) : prev.data[i] = <<>> /\ prev.data[j] # <<>>
    /\ rendered[2].text = rendered[1].text

(***************************************************************************)
(* C5: a GSV line with one more data field than the declared GSV schema,   *)
(* parsed with GSV_signal_id=True, gives a sentence whose schema is the    *)
(* declared one cut to len(data)-1 entries plus 'signal_id', so that       *)
(* 'signal_id' names the last data position; with GSV_signal_id=False      *)
(* 'signal_id' is not in the schema and the last position has no name.     *)
(***************************************************************************)
C5_Case ==
    /\ call.op = "parse"
    /\ call.raised = ""
    /\ s.category = "TalkerSentence"
    /\ s.sentence_type = GSV
    /\ Len(s.data) = Len(sentence_types["TalkerSentence"][GSV].fields) + 1

Overwritten(idx) ==
    /\ call.raised = ""
    /\ idx < Len(prev.data)
    /\ Len(s.data) = Len(prev.data)
    /\ s.data[idx + 1] = Str(call.value)
    /\ \A j \in 1..Len(prev.data) : j # idx + 1 => s.data[j] = prev.data[j]
    /\ SameIdentity(s, prev)

\* C6 as stated
C6_FieldMutation ==
    call.op = "setattr" =>
        IF call.name \in DOMAIN prev.type.name_to_idx
        THEN Overwritten(prev.type.name_to_idx[call.name])
        ELSE s.data = prev.data

\* C6 as amended: the position must exist, else IndexError is raised
\* and the sentence stays as it was; the name 'data' is the data itself
C6_FieldMutationInRange ==
    call.op = "setattr" =>
        IF call.name \in DOMAIN prev.type.name_to_idx
        THEN LET idx == prev.type.name_to_idx[call.name]
             IN IF idx < Len(prev.data) THEN Overwritten(idx)
                ELSE call.raised = "IndexError" /\ s = prev
        ELSE IF call.name = "data" THEN s.data = call.value.list
        ELSE s.data = prev.data

\* the second of two fields overwritten with str(12)
C6_Witness ==
    /\ call.op = "setattr"
    /\ call.name = "lat"
    /\ call.value = IntValue(12)
    /\ "lat" \in DOMAIN prev.type.name_to_idx
    /\ prev.type.name_to_idx["lat"] = 1
    /\ Len(prev.data) = 2
    /\ prev.data[1] # <<>>
    /\ prev.data[2] # <<"1", "2">>
    /\ s.data = <<prev.data[1], <<"1", "2">>>>

(***************************************************************************)
(* C7: parse never raises SentenceTypeError for a proprietary or a query   *)
(* line; a proprietary line parsed with check=False gives a sentence of    *)
(* the registered type when the manufacturer is registered and of the      *)
(* generic ProprietarySentence when not, with the manufacturer code and    *)
(* the comma-split fields.                                                 *)
(***************************************************************************)
C7_ProprietaryNeverTypeError ==
    Accepted =>
        LET b == Body(call.line)
            covered == Covered(b)
            manufacturer == Upper(SubSeq(b, 2, 4))
            registry == sentence_types["ProprietarySentence"]
        IN /\ call.raised = "SentenceTypeError"
              => ~ProprietaryAnchor(b) /\ ~QueryAnchor(b)
           /\ (ProprietaryAnchor(b) /\ ~call.check)
              => /\ call.raised = ""
                 /\ s.category = "ProprietarySentence"
                 /\ s.manufacturer = manufacturer
                 /\ s.data = Split(SubSeq(covered, 5, Len(covered)))
                 /\ s.type = IF manufacturer \in DOMAIN registry
                             THEN registry[manufacturer] ELSE Generic

\* an unregistered manufacturer, two fields
C7_Witness ==
    /\ call.op = "parse"
    /\ ~call.check
    /\ ProprietaryAnchor(Body(call.line))
    /\ s.category = "ProprietarySentence"
    /\ s.manufacturer \notin DOMAIN sentence_types["ProprietarySentence"]
    /\ s.type = Generic
    /\ Len(s.data) = 2
    /\ s.data[2] # <<>>

(***************************************************************************)
(* C8: the three shapes do not overlap: a line is proprietary only if      *)
(* neither the talker anchor nor the query anchor matches it; every line   *)
(* of the talker shape goes to the talker registry and every line of the   *)
(* query shape without data becomes a QuerySentence, also when the first   *)
(* character is 'P' or the code ends in 'Q'.                               *)
(***************************************************************************)
\* the talker branch was taken
TalkerDispatched ==
    \/ call.raised = "" /\ s.category = "TalkerSentence"
    \/ call.raised \in {"SentenceTypeError", "AttributeError"}

\* C8 as stated
C8_NoOverlap ==
    (Accepted /\ call.raised # "ChecksumError") =>
        LET b == Body(call.line)
        IN /\ s.category = "ProprietarySentence"
              => ~TalkerAnchor(b) /\ ~QueryAnchor(b)
           /\ TalkerAnchor(b) => TalkerDispatched
           /\ (QueryAnchor(b) /\ Len(Covered(b)) = 9)
              => call.raised = "" /\ s.category = "QuerySentence"

\* C8 as amended: the shapes overlap and the first that matches, in
\* the order proprietary, query, talker, decides
C8_FirstShapeWins ==
    (Accepted /\ call.raised # "ChecksumError") =>
        LET b == Body(call.line)
        IN IF ProprietaryAnchor(b)
           THEN call.raised = "" /\ s.category = "ProprietarySentence"
           ELSE IF QueryAnchor(b)
           THEN IF Len(Covered(b)) = 9
                THEN call.raised = "" /\ s.category = "QuerySentence"
                ELSE call.raised = "ParseError"
           ELSE TalkerAnchor(b) /\ TalkerDispatched

\* a line of the talker shape and of the query shape whose first character
\* is 'P': a proprietary sentence
C8_Witness ==
    /\ call.op = "parse"
    /\ Accepted
    /\ TalkerAnchor(Body(call.line))
    /\ QueryAnchor(Body(call.line))
    /\ ProprietaryAnchor(Body(call.line))
    /\ s.category = "ProprietarySentence"

(***************************************************************************)
(* C10: for a Talker or Proprietary sentence s that parse returned, fields *)
(* not assigned, parse(s.render(), check=True) succeeds and returns a      *)
(* sentence of the same category with the same identity fields and data.   *)
(***************************************************************************)
C10_Case ==
    /\ call.op = "reparse"
    /\ call.check
    /\ ~modified
    /\ IsDefaultRender(1)
    /\ prev.category \in {"TalkerSentence", "ProprietarySentence"}

C10_RenderedChecksumValidates ==
    C10_Case =>
        /\ call.raised = ""
        /\ SameIdentity(s, prev)
        /\ s.data = prev.data

\* a sentence parsed from a line without a checksum, whose last field holds
\* the line end
C10_Witness ==
    /\ C10_Case
    /\ call.raised = ""
    /\ s.data = prev.data
    /\ \E i \in 1..Len(s.data) : \E k \in 1..Len(s.data[i]) : s.data[i][k] = "\n"

====
